---------------------------- MODULE Spec2Model ----------------------------
(***************************************************************************)
(* HGRNAttention (fla/layers/hgrn.py): the hierarchically gated linear     *)
(* recurrence layer, its strategy dispatch and its use of the external     *)
(* per-layer state cache.                                                  *)
(*                                                                         *)
(* Numbers.  Real values are exact rationals <<n, d>> (d > 0, lowest       *)
(* terms).  Raw projection outputs are integers k standing for the real    *)
(* k * ln 2, so that sigmoid(k ln 2) = 2^k / (2^k + 1) is rational; the    *)
(* effective inputs, the states and the outputs are rational multiples of  *)
(* ln 2 (the recurrence is linear in them).  A log-domain value (the       *)
(* log-decay f) is the logarithm of a rational: it is stored as the vector *)
(* of prime exponents of that rational, so that adding logs adds exponent  *)
(* vectors and exp multiplies the primes back.                             *)
(***************************************************************************)
EXTENDS Integers, Sequences, FiniteSets, TLC

\* An optional value (Python's `x or None`) is a sequence of at most one element.
None == << >>
Some(x) == <<x>>
IsNone(x) == x = << >>
Val(x) == x[1]

\* A function over 1..n as the tuple of its values: each value is computed once.
Tuple(f) == f \o << >>

(***************************************************************************)
(* Exact rational arithmetic                                               *)
(***************************************************************************)
Abs(x) == IF x < 0 THEN -x ELSE x

RECURSIVE GCD(_, _)
GCD(a, b) == IF b = 0 THEN a ELSE GCD(b, a % b)

Rat(n, d) == LET g == GCD(Abs(n), d) IN <<n \div g, d \div g>>

Zero == <<0, 1>>
One == <<1, 1>>

\* sums over the least common denominator, which keeps the intermediate values small
LCM(a, b) == (a \div GCD(a, b)) * b

RAdd(x, y) ==
    Rat(x[1] * (LCM(x[2], y[2]) \div x[2]) + y[1] * (LCM(x[2], y[2]) \div y[2]),
        LCM(x[2], y[2]))
RNeg(x) == <<-x[1], x[2]>>
RSub(x, y) == RAdd(x, RNeg(y))
\* products cancel across before multiplying
RMul(x, y) ==
    LET a == Rat(x[1], y[2])
        b == Rat(y[1], x[2])
    IN Rat(a[1] * b[1], a[2] * b[2])
REq(x, y) == Rat(x[1], x[2]) = Rat(y[1], y[2])
RLeq(x, y) == RSub(y, x)[1] >= 0
RLt(x, y) == RSub(y, x)[1] > 0

RECURSIVE Pow(_, _)
Pow(b, k) == IF k = 0 THEN 1 ELSE b * Pow(b, k - 1)

(***************************************************************************)
(* Log domain: log(n/d) as prime exponents plus an unfactored cofactor.    *)
(* NegInf is log(0).                                                       *)
(***************************************************************************)
Primes == <<2, 3, 5>>
NegInf == [e |-> Tuple([j \in 1..Len(Primes) |-> 0]), r |-> <<0, 1>>]
IsNegInf(l) == l.r[1] = 0

RECURSIVE Valuation(_, _)
Valuation(p, n) == IF n % p = 0 THEN 1 + Valuation(p, n \div p) ELSE 0

\* n with every factor Primes[1..j] divided out
RECURSIVE Cofactor(_, _)
Cofactor(n, j) ==
    IF j = 0 THEN n
    ELSE Cofactor(n \div Pow(Primes[j], Valuation(Primes[j], n)), j - 1)

\* the product of Primes[i]^e[i] over the i <= j whose exponent has sign sgn
RECURSIVE PrimeProduct(_, _, _)
PrimeProduct(e, sgn, j) ==
    IF j = 0 THEN 1
    ELSE (IF sgn * e[j] > 0 THEN Pow(Primes[j], sgn * e[j]) ELSE 1)
            * PrimeProduct(e, sgn, j - 1)

\* tensor.log(): the logarithm of a rational x >= 0
Log(x) ==
    IF x[1] = 0 THEN NegInf
    ELSE [e |-> Tuple([j \in 1..Len(Primes) |->
                    Valuation(Primes[j], x[1]) - Valuation(Primes[j], x[2])]),
          r |-> <<Cofactor(x[1], Len(Primes)), Cofactor(x[2], Len(Primes))>>]

\* tensor.exp()
Exp(l) ==
    IF IsNegInf(l) THEN Zero
    ELSE <<l.r[1] * PrimeProduct(l.e, 1, Len(Primes)),
           l.r[2] * PrimeProduct(l.e, -1, Len(Primes))>>

\* sum of two log-domain values
LAdd(l, m) ==
    IF IsNegInf(l) \/ IsNegInf(m) THEN NegInf
    ELSE [e |-> Tuple([j \in 1..Len(Primes) |-> l.e[j] + m.e[j]]), r |-> RMul(l.r, m.r)]

LZero == Log(One)

\* sigmoid(k ln 2) = 2^k / (2^k + 1)
Sigmoid(k) == IF k >= 0 THEN Rat(Pow(2, k), Pow(2, k) + 1) ELSE Rat(1, 1 + Pow(2, -k))

\* F.logsigmoid on a raw value k (the real k ln 2)
LogSigmoid(k) == Log(Sigmoid(k))

\* torch.log1p(-x) for a rational x in [0, 1)
Log1pNeg(x) == Log(RSub(One, x))

\* torch.logaddexp(l, m) = log(exp(l) + exp(m))
LogAddExp(l, m) == Log(RAdd(Exp(l), Exp(m)))

\* silu(k ln 2) = k * sigmoid(k ln 2)   [in units of ln 2]
Silu(k) == RMul(<<k, 1>>, Sigmoid(k))

\* fla.modules.activations.swiglu(x, y) = silu(x) * y
swiglu(x, y) == RMul(Silu(x), y)


(***************************************************************************)
(* Tensors: [shape |-> <<d1, .., dn>>, v |-> nested sequences].  A tensor  *)
(* keeps its shape when a dimension is empty.                              *)
(***************************************************************************)
Tensor2(n, m, F(_, _)) ==
    [shape |-> <<n, m>>, v |-> Tuple([a \in 1..n |-> Tuple([b \in 1..m |-> F(a, b)])])]

Tensor3(n, m, k, F(_, _, _)) ==
    [shape |-> <<n, m, k>>,
     v |-> Tuple([a \in 1..n |-> Tuple([b \in 1..m |-> Tuple([c \in 1..k |-> F(a, b, c)])])])]

\* Python's x[:, -n:] on the second dimension: -0 is 0, so n = 0 keeps everything
NegSlice(x, n) ==
    LET len == x.shape[2]
        from == IF n = 0 THEN 1 ELSE IF n >= len THEN 1 ELSE len - n + 1
        m == len - from + 1
    IN [shape |-> <<x.shape[1], m>>,
        v |-> Tuple([a \in 1..x.shape[1] |-> Tuple([b \in 1..m |-> x.v[a][from + b - 1]])])]

\* torch broadcasting of x (B, T, C) with m[:, :, None] (B, Tm, 1) for an in-place
\* x.mul_(...): sizes must be equal, or the mask's size must be 1
CanBroadcast(x, m) ==
    /\ m.shape[1] = x.shape[1] \/ m.shape[1] = 1
    /\ m.shape[2] = x.shape[2] \/ m.shape[2] = 1

BIndex(size, idx) == IF size = 1 THEN 1 ELSE idx

\* x.mul_(m[:, :, None]) on integer (raw) tensors
MulMaskInt(x, m) ==
    LET F(a, b, c) == x.v[a][b][c] * m.v[BIndex(m.shape[1], a)][BIndex(m.shape[2], b)]
    IN Tensor3(x.shape[1], x.shape[2], x.shape[3], F)

\* x.mul_(m[:, :, None]) on rational tensors
MulMaskRat(x, m) ==
    LET F(a, b, c) ==
            RMul(x.v[a][b][c], <<m.v[BIndex(m.shape[1], a)][BIndex(m.shape[2], b)], 1>>)
    IN Tensor3(x.shape[1], x.shape[2], x.shape[3], F)

(***************************************************************************)
(* Segments of the time axis.  Without cu_seqlens every batch row is one   *)
(* sequence; with cu_seqlens the single row packs Len(cu) - 1 sequences.   *)
(* A segment is [b, lo, hi]: steps lo..hi of row b.                        *)
(***************************************************************************)
Segments(B, T, cu_seqlens) ==
    IF IsNone(cu_seqlens) THEN Tuple([n \in 1..B |-> [b |-> n, lo |-> 1, hi |-> T]])
    ELSE LET cu == Val(cu_seqlens)
         IN Tuple([n \in 1..(Len(cu) - 1) |-> [b |-> 1, lo |-> cu[n] + 1, hi |-> cu[n + 1]]])

SegmentOf(segs, b, t) ==
    CHOOSE n \in 1..Len(segs) : segs[n].b = b /\ segs[n].lo <= t /\ t <= segs[n].hi

Column(x, seg, c) == Tuple([m \in 1..(seg.hi - seg.lo + 1) |-> x.v[seg.b][seg.lo + m - 1][c]])

(***************************************************************************)
(* nn.Linear(hidden_size, input_dim, bias=False) with hidden_size = 1: the *)
(* hidden state of a step is one integer and channel c of a projection is  *)
(* weight[c] * x.  The weights are fixed (learned) parameters.             *)
(***************************************************************************)
i_proj_weight(c) == c
f_proj_weight(c) == IF c % 2 = 1 THEN 1 ELSE -1

i_proj(self, hidden_states) ==
    LET F(b, t, c) == i_proj_weight(c) * hidden_states.v[b][t][1]
    IN Tensor3(hidden_states.shape[1], hidden_states.shape[2], self.input_dim, F)

f_proj(self, hidden_states) ==
    LET F(b, t, c) == f_proj_weight(c) * hidden_states.v[b][t][1]
    IN Tensor3(hidden_states.shape[1], hidden_states.shape[2], self.input_dim, F)

(***************************************************************************)
(* ShortConvolution (fla.modules): depthwise causal convolution over a     *)
(* trailing window of conv_size steps, no bias, no activation.  The state  *)
(* of a sequence and channel is its last conv_size (masked) inputs.        *)
(***************************************************************************)
conv_weight(j) == 1

LastK(s, k) == Tuple([m \in 1..k |-> s[Len(s) - k + m]])

RECURSIVE Taps(_, _, _)
Taps(ext, m, j) == IF j = 0 THEN 0 ELSE conv_weight(j) * ext[m + j] + Taps(ext, m, j - 1)

\* the convolution of the (masked) input xm over the sequences segs
ConvOver(self, xm, segs, cache, output_final_state) ==
    LET K == self.conv_size
        prev(n, c) == IF IsNone(cache) THEN Tuple([j \in 1..K |-> 0]) ELSE Val(cache).v[n][c]
        ext(n, c) == prev(n, c) \o Column(xm, segs[n], c)
        F(b, t, c) == LET n == SegmentOf(segs, b, t)
                      IN Taps(ext(n, c), t - segs[n].lo + 1, K)
        G(n, c) == LastK(ext(n, c), K)
    IN [err |-> FALSE,
        y |-> Tensor3(xm.shape[1], xm.shape[2], xm.shape[3], F),
        final |-> IF output_final_state
                  THEN Some(Tensor2(Len(segs), xm.shape[3], G)) ELSE None]

\* returns [err, y, final]: err is TRUE when the mask cannot be broadcast
ShortConvolution(self, x, mask, cache, output_final_state, cu_seqlens) ==
    IF IsNone(mask)
    THEN ConvOver(self, x, Segments(x.shape[1], x.shape[2], cu_seqlens), cache,
                  output_final_state)
    ELSE IF CanBroadcast(x, Val(mask))
    THEN ConvOver(self, MulMaskInt(x, Val(mask)),
                  Segments(x.shape[1], x.shape[2], cu_seqlens), cache,
                  output_final_state)
    ELSE [err |-> TRUE, y |-> x, final |-> None]

(***************************************************************************)
(* Recurrence engine (fla.ops.hgrn): h[t] = exp(g[t]) * h[t-1] + x[t]      *)
(***************************************************************************)
\* the states after steps lo..hi, h being the state before step lo.  The steps
\* are taken in order; the range is halved to keep the evaluation shallow.
RECURSIVE ScanRange(_, _, _, _, _)
RECURSIVE ScanJoin(_, _, _, _, _)
ScanRange(xs, gs, h, lo, hi) ==
    IF lo > hi THEN << >>
    ELSE IF lo = hi THEN <<RAdd(RMul(Exp(gs[lo]), h), xs[lo])>>
    ELSE ScanJoin(xs, gs, ScanRange(xs, gs, h, lo, (lo + hi) \div 2), (lo + hi) \div 2, hi)

ScanJoin(xs, gs, left, mid, hi) == left \o ScanRange(xs, gs, left[Len(left)], mid + 1, hi)

ScanFrom(xs, gs, h) == ScanRange(xs, gs, h, 1, Len(xs))

LastOr(hs, h0) == IF Len(hs) = 0 THEN h0 ELSE hs[Len(hs)]

InitialOf(initial_state, n, c) ==
    IF IsNone(initial_state) THEN Zero ELSE Val(initial_state).v[n][c]

\* the outputs and final states from the per-sequence, per-channel scans hs
ScanResult(x, segs, hs, initial_state, output_final_state) ==
    LET F(b, t, c) == LET n == SegmentOf(segs, b, t) IN hs[n][c][t - segs[n].lo + 1]
        G(n, c) == LastOr(hs[n][c], InitialOf(initial_state, n, c))
    IN [o |-> Tensor3(x.shape[1], x.shape[2], x.shape[3], F),
        final |-> IF output_final_state
                  THEN Some(Tensor2(Len(segs), x.shape[3], G)) ELSE None]

FusedScans(x, g, segs, initial_state) ==
    Tuple([n \in 1..Len(segs) |-> Tuple([c \in 1..x.shape[3] |->
        ScanFrom(Column(x, segs[n], c), Column(g, segs[n], c),
                 InitialOf(initial_state, n, c))])])

\* sequential strategy; returns [o, final]
fused_recurrent_hgrn(x, g, initial_state, output_final_state, cu_seqlens) ==
    ScanResult(x, Segments(x.shape[1], x.shape[2], cu_seqlens),
               FusedScans(x, g, Segments(x.shape[1], x.shape[2], cu_seqlens),
                          initial_state),
               initial_state, output_final_state)

ChunkSize == 2

Min(a, b) == IF a < b THEN a ELSE b

SubSeqOf(s, lo, hi) == Tuple([m \in 1..(hi - lo + 1) |-> s[lo + m - 1]])

\* prefix sums of the log-decay inside one chunk
RECURSIVE CumRange(_, _, _, _)
RECURSIVE CumJoin(_, _, _, _)
CumRange(gs, acc, lo, hi) ==
    IF lo > hi THEN << >>
    ELSE IF lo = hi THEN <<LAdd(acc, gs[lo])>>
    ELSE CumJoin(gs, CumRange(gs, acc, lo, (lo + hi) \div 2), (lo + hi) \div 2, hi)

CumJoin(gs, left, mid, hi) == left \o CumRange(gs, left[Len(left)], mid + 1, hi)

CumSum(gs) == CumRange(gs, LZero, 1, Len(gs))

\* one chunk: its local scan from zero and its cumulative decay, combined
\* with the state carried in from the chunk before
ChunkOut(local, gc, carry) ==
    Tuple([m \in 1..Len(local) |-> RAdd(local[m], RMul(Exp(gc[m]), carry))])

\* chunk k of a sequence of length len: steps ChunkLo..ChunkHi
ChunkLo(k) == (k - 1) * ChunkSize + 1
ChunkHi(k, len) == Min(k * ChunkSize, len)
NumChunks(len) == (len + ChunkSize - 1) \div ChunkSize

Chunk(xs, gs, carry, k) ==
    ChunkOut(ScanFrom(SubSeqOf(xs, ChunkLo(k), ChunkHi(k, Len(xs))),
                      SubSeqOf(gs, ChunkLo(k), ChunkHi(k, Len(xs))), Zero),
             CumSum(SubSeqOf(gs, ChunkLo(k), ChunkHi(k, Len(xs)))),
             carry)

\* chunks klo..khi in order, carry being the state after chunk klo - 1
RECURSIVE ChunkRange(_, _, _, _, _)
RECURSIVE ChunkJoin(_, _, _, _, _)
ChunkRange(xs, gs, carry, klo, khi) ==
    IF klo > khi THEN << >>
    ELSE IF klo = khi THEN Chunk(xs, gs, carry, klo)
    ELSE ChunkJoin(xs, gs, ChunkRange(xs, gs, carry, klo, (klo + khi) \div 2),
                   (klo + khi) \div 2, khi)

ChunkJoin(xs, gs, left, mid, khi) ==
    left \o ChunkRange(xs, gs, left[Len(left)], mid + 1, khi)

ChunkFrom(xs, gs, carry) == ChunkRange(xs, gs, carry, 1, NumChunks(Len(xs)))

ChunkScans(x, g, initial_state) ==
    Tuple([n \in 1..x.shape[1] |-> Tuple([c \in 1..x.shape[3] |->
        ChunkFrom(Tuple([t \in 1..x.shape[2] |-> x.v[n][t][c]]),
                  Tuple([t \in 1..x.shape[2] |-> g.v[n][t][c]]),
                  InitialOf(initial_state, n, c))])])

\* chunked strategy; returns [o, final]
chunk_hgrn(x, g, initial_state, output_final_state) ==
    ScanResult(x, Segments(x.shape[1], x.shape[2], None),
               ChunkScans(x, g, initial_state), initial_state, output_final_state)

(***************************************************************************)
(* The external cache (fla.models.utils.Cache): one entry per layer, in    *)
(* layer order, and the number of steps its owner has been told about.     *)
(***************************************************************************)
CacheLen(cache) == Len(cache.states)

CacheGet(cache, layer_idx) == cache.states[layer_idx + 1]

\* Cache.update(recurrent_state, conv_state, layer_idx, offset): upsert and record
CacheUpdate(cache, args) ==
    LET entry == [recurrent_state |-> args.recurrent_state, conv_state |-> args.conv_state]
    IN [states |-> IF CacheLen(cache) <= args.layer_idx
                   THEN Append(cache.states, entry)
                   ELSE [cache.states EXCEPT ![args.layer_idx + 1] = entry],
        seen_tokens |-> cache.seen_tokens + args.offset]

(***************************************************************************)
(* HGRNAttention.forward, statement by statement                           *)
(***************************************************************************)
Cutoff == 64

\* lines 89-94: the padding mask must be a 2-D matrix
MaskCheck(attention_mask) ==
    IsNone(attention_mask) \/ Len(Val(attention_mask).shape) = 2

\* select_mode with the cutoff itself excluded (T < 64)
select_mode_strict(self, training, hidden_states) ==
    IF ~training /\ hidden_states.shape[2] < Cutoff THEN "fused_recurrent" ELSE self.mode

\* line 97
select_mode(self, training, hidden_states) ==
    IF ~training /\ hidden_states.shape[2] <= Cutoff THEN "fused_recurrent" ELSE self.mode

\* lines 99-101: past_key_values is None or the cache object
read_last_state(self, past_key_values) ==
    IF ~IsNone(past_key_values) /\ CacheLen(Val(past_key_values)) > self.layer_idx
    THEN Some(CacheGet(Val(past_key_values), self.layer_idx))
    ELSE None

\* line 108
conv_mask(hidden_states, attention_mask) ==
    IF ~IsNone(attention_mask)
    THEN Some(NegSlice(Val(attention_mask), hidden_states.shape[2]))
    ELSE None

\* lines 104-125: the raw input and forget branches; [err, i, f, conv_state]
branches(self, hidden_states, attention_mask, last_state, use_cache, cu_seqlens) ==
    IF self.use_short_conv
    THEN LET prev == IF ~IsNone(last_state) THEN Val(last_state).conv_state ELSE None
             conv_state_i == IF IsNone(prev) THEN None ELSE Val(prev)[1]
             conv_state_f == IF IsNone(prev) THEN None ELSE Val(prev)[2]
             cm == conv_mask(hidden_states, attention_mask)
             ci == ShortConvolution(self, i_proj(self, hidden_states), cm,
                                    conv_state_i, use_cache, cu_seqlens)
             cf == ShortConvolution(self, f_proj(self, hidden_states), cm,
                                    conv_state_f, use_cache, cu_seqlens)
         IN [err |-> ci.err \/ cf.err, i |-> ci.y, f |-> cf.y,
             conv_state |-> Some(<<ci.final, cf.final>>)]
    ELSE [err |-> FALSE, i |-> i_proj(self, hidden_states),
          f |-> f_proj(self, hidden_states), conv_state |-> None]

\* floor_applies without the exemption of the first layer
floor_applies_every_layer(self, lower_bound) == ~IsNone(lower_bound)

\* line 129: the first layer never receives the floor
floor_applies(self, lower_bound) == ~IsNone(lower_bound) /\ self.layer_idx > 0

\* lines 127-130: the log-decay; lower_bound is read, never written
gate(self, f, lower_bound) ==
    LET ls(b, t, c) == LogSigmoid(f.v[b][t][c])
        lb(c) == Val(lower_bound).v[c]
        F(b, t, c) ==
            IF floor_applies(self, lower_bound)
            THEN LogAddExp(Log(lb(c)), LAdd(Log1pNeg(lb(c)), ls(b, t, c)))
            ELSE ls(b, t, c)
    IN [f |-> Tensor3(f.shape[1], f.shape[2], f.shape[3], F),
        lower_bound |-> lower_bound]

\* line 131
activate(i, f) ==
    LET F(b, t, c) == swiglu(i.v[b][t][c], RSub(One, Exp(f.v[b][t][c])))
    IN Tensor3(i.shape[1], i.shape[2], i.shape[3], F)

\* mask_window taking the leading window x[:, :n] of the mask instead of the
\* trailing one
mask_window_leading(i, attention_mask) ==
    LET m == Min(i.shape[2], attention_mask.shape[2])
    IN [shape |-> <<attention_mask.shape[1], m>>,
        v |-> Tuple([a \in 1..attention_mask.shape[1] |->
                        Tuple([b \in 1..m |-> attention_mask.v[a][b]])])]

\* line 135: the slice of the mask multiplied into the effective input
mask_window(i, attention_mask) == NegSlice(attention_mask, i.shape[2])

\* lines 133-135; [err, i]
apply_mask(i, attention_mask) ==
    IF IsNone(attention_mask) THEN [err |-> FALSE, i |-> i]
    ELSE LET m == mask_window(i, Val(attention_mask))
         IN IF CanBroadcast(i, m) THEN [err |-> FALSE, i |-> MulMaskRat(i, m)]
            ELSE [err |-> TRUE, i |-> i]

\* initial_state ignoring what the cache holds
initial_state_none(last_state) == None

\* line 137
initial_state(last_state) ==
    IF ~IsNone(last_state) THEN Val(last_state).recurrent_state ELSE None

\* engine serving a chunked call with segment boundaries by the sequential strategy
engine_degrades(mode, i, f, recurrent_state, use_cache, cu_seqlens) ==
    IF mode = "chunk" /\ IsNone(cu_seqlens)
    THEN LET r == chunk_hgrn(i, f, recurrent_state, use_cache)
         IN [err |-> "", o |-> Some(r.o), recurrent_state |-> r.final]
    ELSE LET r == fused_recurrent_hgrn(i, f, recurrent_state, use_cache, cu_seqlens)
         IN [err |-> "", o |-> Some(r.o), recurrent_state |-> r.final]

\* engine whose chunked strategy starts from the zero state whatever it is given
engine_chunk_from_zero(mode, i, f, recurrent_state, use_cache, cu_seqlens) ==
    IF mode = "chunk"
    THEN IF ~IsNone(cu_seqlens)
         THEN [err |-> "NotImplementedError", o |-> None, recurrent_state |-> None]
         ELSE LET r == chunk_hgrn(i, f, None, use_cache)
              IN [err |-> "", o |-> Some(r.o), recurrent_state |-> r.final]
    ELSE LET r == fused_recurrent_hgrn(i, f, recurrent_state, use_cache, cu_seqlens)
         IN [err |-> "", o |-> Some(r.o), recurrent_state |-> r.final]

\* lines 138-156; [err, o, recurrent_state]
engine(mode, i, f, recurrent_state, use_cache, cu_seqlens) ==
    IF mode = "chunk"
    THEN IF ~IsNone(cu_seqlens)
         THEN [err |-> "NotImplementedError", o |-> None, recurrent_state |-> None]
         ELSE LET r == chunk_hgrn(i, f, recurrent_state, use_cache)
              IN [err |-> "", o |-> Some(r.o), recurrent_state |-> r.final]
    ELSE IF mode = "fused_recurrent"
    THEN LET r == fused_recurrent_hgrn(i, f, recurrent_state, use_cache, cu_seqlens)
         IN [err |-> "", o |-> Some(r.o), recurrent_state |-> r.final]
    ELSE [err |-> "NotImplementedError", o |-> None, recurrent_state |-> None]

\* line 163: offset=i.shape[2] of the (batch, time, channels) tensor i
update_offset(i) == i.shape[3]

\* lines 158-164: the update issued to the cache, if any
update_args(self, past_key_values, use_cache, i, recurrent_state, conv_state) ==
    IF ~IsNone(past_key_values)
    THEN Some([recurrent_state |-> recurrent_state,
               conv_state |-> IF self.use_short_conv THEN conv_state ELSE None,
               layer_idx |-> self.layer_idx,
               offset |-> update_offset(i)])
    ELSE None

NoResult(cache) ==
    [outcome |-> "", trace |-> << >>, mode |-> "", h0 |-> None, f_raw |-> None,
     f |-> None, i |-> None,
     o |-> None, recurrent_state |-> None, conv_state |-> None, update |-> None,
     lower_bound |-> None, cache |-> cache]

\* lines 158-169: the cache update and the return
forward_update(cache, r, upd) ==
    [r EXCEPT !.outcome = "ok",
              !.trace = @ \o <<"recurrence">>
                          \o (IF IsNone(upd) THEN << >> ELSE <<"cache_update">>)
                          \o <<"output">>,
              !.update = upd,
              !.cache = IF IsNone(upd) THEN cache ELSE CacheUpdate(cache, Val(upd))]

\* forward_engine writing to the cache before it raises
forward_engine_writes_first(self, cache, inp, past_key_values, r, conv_state, i, eng) ==
    [forward_update(cache,
                    [r EXCEPT !.o = eng.o, !.recurrent_state = eng.recurrent_state,
                              !.conv_state = conv_state],
                    update_args(self, past_key_values, inp.use_cache, i,
                                eng.recurrent_state, conv_state))
        EXCEPT !.outcome = IF eng.err # "" THEN eng.err ELSE "ok"]

\* lines 138-156, what the engine did
forward_engine(self, cache, inp, past_key_values, r, conv_state, i, eng) ==
    IF eng.err # ""
    THEN [r EXCEPT !.outcome = eng.err]
    ELSE forward_update(cache,
                        [r EXCEPT !.o = eng.o, !.recurrent_state = eng.recurrent_state,
                                  !.conv_state = conv_state],
                        update_args(self, past_key_values, inp.use_cache, i,
                                    eng.recurrent_state, conv_state))

\* lines 133-137, what the masking did
forward_mask(self, cache, inp, past_key_values, r, last_state, conv_state, f, im) ==
    IF im.err
    THEN [r EXCEPT !.outcome = "RuntimeError"]
    ELSE forward_engine(self, cache, inp, past_key_values,
                        [r EXCEPT !.i = Some(im.i), !.h0 = initial_state(last_state)],
                        conv_state, im.i,
                        engine(r.mode, im.i, f, initial_state(last_state),
                               inp.use_cache, inp.cu_seqlens))

\* lines 127-131, the gate g composed
forward_gate(self, cache, inp, past_key_values, r, last_state, br, g) ==
    forward_mask(self, cache, inp, past_key_values,
                 [r EXCEPT !.f_raw = Some(br.f), !.f = Some(g.f),
                           !.lower_bound = g.lower_bound,
                           !.trace = @ \o <<"gate", "swiglu">>
                                       \o (IF IsNone(inp.attention_mask)
                                           THEN << >> ELSE <<"mask">>)],
                 last_state, br.conv_state, g.f,
                 apply_mask(activate(br.i, g.f), inp.attention_mask))

\* lines 104-125, the branches br computed
forward_branches(self, cache, inp, past_key_values, r, last_state, br) ==
    IF br.err
    THEN [r EXCEPT !.outcome = "RuntimeError"]
    ELSE forward_gate(self, cache, inp, past_key_values, r, last_state, br,
                      gate(self, br.f, inp.lower_bound))

\* lines 96-103, the strategy selected and the cache read
forward_read(self, cache, inp, past_key_values, mode, last_state) ==
    forward_branches(self, cache, inp, past_key_values,
                     [NoResult(cache) EXCEPT
                         !.lower_bound = inp.lower_bound,
                         !.mode = mode,
                         !.trace = <<"mask_check", "select_mode", "cache_read",
                                     "projection">>
                                   \o (IF self.use_short_conv
                                       THEN <<"convolution">> ELSE << >>)],
                     last_state,
                     branches(self, inp.hidden_states, inp.attention_mask, last_state,
                              inp.use_cache, inp.cu_seqlens))

\* The cache object the call receives: inp.past_key_values says whether the
\* caller passes its cache.
Passed(cache, inp) == IF inp.past_key_values THEN Some(cache) ELSE None

\* lines 79-169.  The result holds what the call computed, the statements it
\* reached (trace) and the cache as the call leaves it.
forward(self, training, cache, inp) ==
    IF ~MaskCheck(inp.attention_mask)
    THEN [NoResult(cache) EXCEPT !.lower_bound = inp.lower_bound,
                                 !.outcome = "AssertionError",
                                 !.trace = <<"mask_check">>]
    ELSE forward_read(self, cache, inp, Passed(cache, inp),
                      select_mode(self, training, inp.hidden_states),
                      read_last_state(self, Passed(cache, inp)))

(***************************************************************************)
(* State                                                                   *)
(***************************************************************************)
VARIABLES
    self,              \* the layer's configuration, fixed by __init__
    training,          \* nn.Module.training
    past_key_values,   \* the caller's cache object
    call,              \* the last forward call: its arguments and what it did
    ncalls,            \* forward calls made so far
    chain              \* history: the steps decoded through the cache so far

vars == <<self, training, past_key_values, call, ncalls, chain>>

MaxT == 3
MaxCalls == 3
MaxSteps == 4

\* __init__ (lines 26-77): mode is asserted to be one of the two strategies.
\* hidden_size = 1 and expand_ratio = 2, so input_dim = 2.
Configs ==
    [mode : {"chunk", "fused_recurrent"}, layer_idx : {0, 1},
     use_short_conv : {FALSE, TRUE}, conv_size : {2}, input_dim : {2}]

\* what an earlier layer of the stack has put in the cache
OtherEntry == [recurrent_state |-> None, conv_state |-> None]

EmptyCache(cfg) ==
    [states |-> Tuple([l \in 1..cfg.layer_idx |-> OtherEntry]), seen_tokens |-> 0]

(***************************************************************************)
(* Arguments of a forward call                                             *)
(***************************************************************************)
Sign(b) == IF b % 2 = 1 THEN 1 ELSE -1

\* (batch, time, 1): pad zero vectors, then the steps toks; row b of the batch
\* holds the sequence with sign Sign(b)
HiddenStates(B, pad, toks) ==
    LET F(b, t, c) == IF t <= pad THEN 0 ELSE Sign(b) * toks[t - pad]
    IN Tensor3(B, pad + Len(toks), 1, F)

\* a (batch, time) padding mask: `extra` earlier positions, the left padding,
\* then the window over the steps
Mask2D(B, extra, pad, window) ==
    LET F(b, t) == IF t <= extra THEN 1
                   ELSE IF t <= extra + pad THEN 0 ELSE window[t - extra - pad]
    IN Some(Tensor2(B, extra + pad + Len(window), F))

\* a pairwise (batch, time, time) mask
Mask3D(B, T) == LET F(b, t, u) == 1 IN Some(Tensor3(B, T, T, F))

LowerBoundValue(c) == IF c = 1 THEN <<1, 2>> ELSE IF c = 2 THEN <<0, 1>> ELSE <<1, 4>>

LowerBound(C) == Some([shape |-> <<C>>, v |-> Tuple([c \in 1..C |-> LowerBoundValue(c)])])

Tokens == {0, 1}

RECURSIVE SeqsOf(_, _)
SeqsOf(S, n) ==
    IF n = 0 THEN {<< >>}
    ELSE {Append(s, x) : s \in SeqsOf(S, n - 1), x \in S}

SeqsUpTo(S, n) == UNION {SeqsOf(S, k) : k \in 0..n}

Ones(n) == Tuple([t \in 1..n |-> 1])

CuSeqlensFor(B, T) ==
    {None} \cup (IF B = 1 THEN {Some(<<0, T>>)} ELSE {})
           \cup (IF B = 1 /\ T >= 2 THEN {Some(<<0, 1, T>>)} ELSE {})

Args(hidden_states, attention_mask, pkv, use_cache, lower_bound, cu_seqlens) ==
    [hidden_states |-> hidden_states, attention_mask |-> attention_mask,
     past_key_values |-> pkv, use_cache |-> use_cache, lower_bound |-> lower_bound,
     cu_seqlens |-> cu_seqlens]

NoInput == Args(HiddenStates(1, 0, << >>), None, FALSE, FALSE, None, None)

NoChain ==
    [n |-> 0, ok |-> FALSE, hidden |-> HiddenStates(1, 0, << >>), o |-> None,
     lower_bound |-> None]

(***************************************************************************)
(* Actions                                                                 *)
(***************************************************************************)
Init ==
    /\ self \in Configs
    /\ training = TRUE
    /\ past_key_values = EmptyCache(self)
    /\ call = [kind |-> "none", inp |-> NoInput, training |-> TRUE,
               before |-> past_key_values, res |-> NoResult(past_key_values)]
    /\ ncalls = 0
    /\ chain = NoChain

\* the state the cache holds for this layer, if any
StoredState(cfg, cache) ==
    IF CacheLen(cache) > cfg.layer_idx
    THEN CacheGet(cache, cfg.layer_idx).recurrent_state ELSE None

StoredRows(cfg, cache) ==
    LET st == StoredState(cfg, cache) IN IF IsNone(st) THEN 0 ELSE Val(st).shape[1]

StateIsZero(cfg, cache) ==
    LET st == StoredState(cfg, cache)
    IN IF IsNone(st) THEN TRUE
       ELSE \A n \in 1..Val(st).shape[1] : \A c \in 1..Val(st).shape[2] :
               Val(st).v[n][c] = Zero

NumSeqs(inp) ==
    Len(Segments(inp.hidden_states.shape[1], inp.hidden_states.shape[2], inp.cu_seqlens))

\* what the caller guarantees: the state it hands back through the cache has one
\* row per sequence of this call, and a long left-padded prompt meets no
\* earlier state
Contract(inp) ==
    /\ (inp.past_key_values /\ StoredRows(self, past_key_values) > 0)
          => StoredRows(self, past_key_values) = NumSeqs(inp)
    /\ (inp.past_key_values /\ inp.hidden_states.shape[2] > MaxT)
          => StateIsZero(self, past_key_values)

\* concatenation along the time axis
CatTime(x, y) ==
    LET F(b, t, c) == IF t <= x.shape[2] THEN x.v[b][t][c] ELSE y.v[b][t - x.shape[2]][c]
    IN Tensor3(x.shape[1], x.shape[2] + y.shape[2], x.shape[3], F)

\* a call that decodes through the cache as the incremental protocol asks
Incremental(inp) ==
    /\ inp.past_key_values /\ inp.use_cache
    /\ IsNone(inp.cu_seqlens) /\ IsNone(inp.attention_mask)
    /\ ~self.use_short_conv

ChainAfter(inp, res) ==
    IF res.outcome # "ok" \/ ~inp.past_key_values THEN chain
    ELSE IF chain.n = 0 /\ Incremental(inp)
            /\ IsNone(read_last_state(self, Some(past_key_values)))
    THEN [n |-> 1, ok |-> TRUE, hidden |-> inp.hidden_states, o |-> res.o,
          lower_bound |-> inp.lower_bound]
    ELSE IF chain.ok /\ Incremental(inp) /\ inp.lower_bound = chain.lower_bound
            /\ inp.hidden_states.shape[1] = chain.hidden.shape[1]
    THEN [chain EXCEPT !.n = @ + 1,
                       !.hidden = CatTime(@, inp.hidden_states),
                       !.o = Some(CatTime(Val(@), Val(res.o)))]
    ELSE [chain EXCEPT !.n = @ + 1, !.ok = FALSE]

\* one forward call with arguments inp
Call(kind, inp) ==
    /\ Contract(inp)
    /\ \E res \in {forward(self, training, past_key_values, inp)} :
          /\ call' = [kind |-> kind, inp |-> inp, training |-> training,
                      before |-> past_key_values, res |-> res]
          /\ past_key_values' = res.cache
          /\ chain' = ChainAfter(inp, res)
    /\ ncalls' = ncalls + 1
    /\ UNCHANGED <<self, training>>

\* nn.Module.train()
Train ==
    /\ ~training
    /\ training' = TRUE
    /\ UNCHANGED <<self, past_key_values, call, ncalls, chain>>

\* nn.Module.eval()
Eval ==
    /\ training
    /\ training' = FALSE
    /\ UNCHANGED <<self, past_key_values, call, ncalls, chain>>

(***************************************************************************)
(* Sessions.  Each specification drives the layer with one family of       *)
(* arguments.  In all but the last, an optional earlier call fills the     *)
(* cache (Prior) and then one call is made; in the last, a stream is       *)
(* decoded through the cache in several calls.                             *)
(***************************************************************************)
PriorInputs ==
    {Args(HiddenStates(B, 0, <<tok>>), None, TRUE, TRUE, None, None) :
        B \in {1, 2}, tok \in Tokens}

Prior ==
    /\ call.kind = "none"
    /\ \E inp \in PriorInputs : Call("prior", inp)

AllOnes == {Ones(n) : n \in 0..MaxT}

\* Spec, the cache protocol: every way of passing the cache, masks of every shape
ProtocolMasks(B, n) ==
    {None, Mask3D(B, n), Mask2D(B, 0, 0, Ones(n)), Mask2D(B, 2, 0, Ones(n)),
     Mask2D(B, 1, 0, Tuple([t \in 1..n |-> IF t = 1 THEN 0 ELSE 1]))}

ProtocolInputs ==
    UNION { UNION {
        {Args(HiddenStates(B, 0, toks), am, pkv, uc, None, cu) :
            am \in ProtocolMasks(B, Len(toks)), pkv \in BOOLEAN, uc \in BOOLEAN,
            cu \in CuSeqlensFor(B, Len(toks)) \ {Some(<<0, 1, Len(toks)>>)}}
        : toks \in AllOnes } : B \in {1, 2} }

Forward ==
    /\ call.kind # "call"
    /\ \E inp \in ProtocolInputs : Call("call", inp)

Next == Prior \/ Forward \/ Train \/ Eval

Spec == Init /\ [][Next]_vars

\* SpecGate, the gate composer: every raw sequence, with and without the floor
GateInputs ==
    {Args(HiddenStates(B, 0, toks), None, FALSE, FALSE, lb, None) :
        B \in {1, 2}, toks \in SeqsUpTo(Tokens, MaxT), lb \in {None, LowerBound(2)}}

ForwardGate ==
    /\ call.kind # "call"
    /\ \E inp \in GateInputs : Call("call", inp)

NextGate == ForwardGate \/ Train \/ Eval

SpecGate == Init /\ [][NextGate]_vars

\* SpecMask, padding: sequences of every length under every mask window, the
\* mask one position longer than the sequence
Alternating(n) == Tuple([t \in 1..n |-> t % 2])

Prompts == {Ones(n) : n \in 0..MaxT} \cup {Alternating(n) : n \in 0..MaxT}

MaskInputs ==
    UNION {
        {Args(HiddenStates(2, 0, toks), am, TRUE, TRUE, None, None) :
            am \in {None} \cup {Mask2D(2, 1, 0, w) : w \in SeqsOf({0, 1}, Len(toks))}}
        : toks \in Prompts }

ForwardMask ==
    /\ call.kind # "call"
    /\ \E inp \in MaskInputs : Call("call", inp)

NextMask == Prior \/ ForwardMask \/ Train \/ Eval

SpecMask == Init /\ [][NextMask]_vars

\* SpecDispatch, strategy selection: lengths on both sides of the cutoff (a long
\* prompt is left padding followed by a few steps), with and without segment
\* boundaries, mask and floor
DispatchInputs ==
    UNION { UNION {
        {Args(HiddenStates(1, pad, toks), am, TRUE, TRUE, lb, cu) :
            am \in {None, Mask2D(1, 0, pad, toks)},
            lb \in {None, LowerBound(2)},
            cu \in {None, Some(<<0, pad + Len(toks)>>)}}
        : toks \in AllOnes } : pad \in {0, Cutoff - 2} }

ForwardDispatch ==
    /\ call.kind # "call"
    /\ \E inp \in DispatchInputs : Call("call", inp)

NextDispatch == Prior \/ ForwardDispatch \/ Train \/ Eval

SpecDispatch == Init /\ [][NextDispatch]_vars

\* SpecChain, incremental decoding: a stream of steps is cut into consecutive
\* calls of any lengths, all through the cache
Streams == {1, 2}

StreamToken(s, t) == IF (t + s) % 3 = 0 THEN 0 ELSE 1

Decoded == chain.hidden.shape[2]

ChainInputs ==
    {Args(HiddenStates(2, 0, Tuple([t \in 1..n |-> StreamToken(s, Decoded + t)])),
          None, TRUE, TRUE, lb, None) :
        n \in 0..Min(MaxT, MaxSteps - Decoded),
        s \in {s \in Streams :
                 \A t \in 1..Decoded : chain.hidden.v[1][t][1] = StreamToken(s, t)},
        lb \in IF chain.n = 0 THEN {None, LowerBound(2)} ELSE {chain.lower_bound}}

ForwardChain ==
    /\ ncalls < MaxCalls
    /\ \E inp \in ChainInputs : Call("call", inp)

NextChain == ForwardChain \/ Train \/ Eval

InitChain == Init /\ ~self.use_short_conv

SpecChain == InitChain /\ [][NextChain]_vars

(***************************************************************************)
(* Properties                                                              *)
(***************************************************************************)
Called == call.kind # "none"
Completed == Called /\ call.res.outcome = "ok"
CallT == call.inp.hidden_states.shape[2]
CallB == call.inp.hidden_states.shape[1]
Channels == self.input_dim

\* the state before step t of row b, channel c, of the last call
PrevState(b, t, c) ==
    IF t = 1 THEN InitialOf(call.res.h0, b, c) ELSE Val(call.res.o).v[b][t - 1][c]

\* x without its last time step (x a (batch, time) or (batch, time, channels) tensor)
DropLastStep(x) ==
    [shape |-> [x.shape EXCEPT ![2] = @ - 1],
     v |-> Tuple([a \in 1..x.shape[1] |-> SubSeqOf(x.v[a], 1, x.shape[2] - 1)])]

\* C1: a call (on at least one step) made with use_cache false issues no update
\* and leaves the cache object it was passed as it was before the call.
C1_NoWriteWithoutUseCache ==
    (Called /\ ~call.inp.use_cache /\ CallT >= 1)
        => (IsNone(call.res.update) /\ call.res.cache = call.before)

\* C2: the offset of every cache write is T, the number of time steps of the
\* (batch, time, channels) input of the call.
C2_OffsetIsStepCount ==
    (Completed /\ ~IsNone(call.res.update))
        => Val(call.res.update).offset = CallT

\* a call that was not rejected for its mask
MaskAccepted == call.res.outcome \notin {"AssertionError", "RuntimeError"}

\* C3 as stated: a layer configured with mode = 'chunk' that is given cu_seqlens
\* (on at least one step) fails with the unsupported-combination error, whatever
\* the training flag and the sequence length.
C3_ChunkModeWithBoundariesFails ==
    (Called /\ self.mode = "chunk" /\ ~IsNone(call.inp.cu_seqlens) /\ MaskAccepted
        /\ CallT >= 1)
        => call.res.outcome = "NotImplementedError"

\* C3 amended: with mode = 'chunk' and cu_seqlens, the call fails with the
\* unsupported-combination error, returns nothing and writes nothing, exactly when
\* the chunked strategy is the one selected (training, or T > 64); in evaluation
\* mode with T <= 64 the call is served by the sequential strategy and completes.
C3_SelectedChunkWithBoundariesFails ==
    (Called /\ self.mode = "chunk" /\ ~IsNone(call.inp.cu_seqlens) /\ MaskAccepted)
        => IF call.training \/ CallT > 64
           THEN /\ call.res.outcome = "NotImplementedError"
                /\ IsNone(call.res.o)
                /\ IsNone(call.res.update)
                /\ call.res.cache = call.before
           ELSE /\ call.res.outcome = "ok"
                /\ call.res.mode = "fused_recurrent"

C3_Witness ==
    /\ Called /\ self.mode = "chunk" /\ ~IsNone(call.inp.cu_seqlens)
    /\ ~call.training /\ CallT > 64
    /\ call.res.outcome = "NotImplementedError"

\* C4: the sequential strategy is selected when the layer is not training and
\* T <= 64, otherwise the configured mode; nothing else enters the selection.
C4_StrategySelection ==
    (Called /\ call.res.outcome # "AssertionError")
        => call.res.mode = (IF ~call.training /\ CallT <= 64
                            THEN "fused_recurrent" ELSE self.mode)

C4_Witness ==
    /\ Completed /\ self.mode = "chunk" /\ ~call.training /\ CallT = 64
    /\ call.res.mode = "fused_recurrent"
    /\ call.inp.past_key_values /\ ~IsNone(StoredState(self, call.before))
    /\ ~IsNone(call.inp.lower_bound)

\* C5: a call that raises leaves every entry of the cache as it was and issues
\* no update; a mask that is not 2-D is rejected before anything else runs.
C5_FailedCallLeavesCache ==
    /\ (Called /\ call.res.outcome # "ok")
          => /\ call.res.cache = call.before
             /\ past_key_values = call.before
             /\ IsNone(call.res.update)
    /\ (Called /\ ~MaskCheck(call.inp.attention_mask))
          => /\ call.res.outcome = "AssertionError"
             /\ call.res.trace = <<"mask_check">>

C5_Witness ==
    /\ Called /\ call.res.outcome = "NotImplementedError"
    /\ call.inp.past_key_values /\ call.inp.use_cache
    /\ ~IsNone(StoredState(self, call.before))

\* the whole decoded stream evaluated by one call on a cache with no entry
OneShot(tr) ==
    forward(self, tr, EmptyCache(self),
            Args(chain.hidden, None, TRUE, TRUE, chain.lower_bound, None))

\* C6: the outputs of consecutive calls through the cache, concatenated, are the
\* outputs of one call on the whole sequence, and the state left in the cache is
\* that call's final state h[T-1], whichever strategy each call selected.
C6_IncrementalEqualsOneShot ==
    (chain.ok /\ chain.n >= 1)
        => \A tr \in BOOLEAN : \A one \in {OneShot(tr)} :
              /\ one.outcome = "ok"
              /\ one.o = chain.o
              /\ StoredState(self, past_key_values) = one.recurrent_state
              /\ Decoded > 0
                    => \A b \in 1..chain.hidden.shape[1] : \A c \in 1..Channels :
                          Val(StoredState(self, past_key_values)).v[b][c]
                              = Val(chain.o).v[b][Decoded][c]

C6_Witness ==
    /\ chain.ok /\ chain.n = 3 /\ Decoded = MaxSteps
    /\ CallT >= 1 /\ CallT < Decoded
    /\ ~StateIsZero(self, past_key_values)
    /\ self.mode = "chunk"

\* C7: exp(f) lies in (0, 1); with a lower bound lb on a layer of index > 0,
\* exp(f) = lb + (1 - lb) * sigmoid(f_raw) >= lb; on layer 0, and without a lower
\* bound, exp(f) = sigmoid(f_raw); the lower bound is handed back unmodified.
C7_DecayFloor ==
    Completed
        => /\ call.res.lower_bound = call.inp.lower_bound
           /\ \A b \in 1..CallB : \A t \in 1..CallT : \A c \in 1..Channels :
                 LET e == Exp(Val(call.res.f).v[b][t][c])
                     s == Sigmoid(Val(call.res.f_raw).v[b][t][c])
                     lb == Val(call.inp.lower_bound).v[c]
                 IN /\ RLt(Zero, e) /\ RLt(e, One)
                    /\ IF ~IsNone(call.inp.lower_bound) /\ self.layer_idx > 0
                       THEN /\ REq(e, RAdd(lb, RMul(RSub(One, lb), s)))
                            /\ RLeq(lb, e)
                       ELSE REq(e, s)

C7_Witness ==
    /\ Completed /\ self.layer_idx > 0 /\ ~IsNone(call.inp.lower_bound)
    /\ CallT >= 2 /\ CallB = 2
    /\ call.inp.hidden_states.v[1][1][1] # call.inp.hidden_states.v[1][2][1]

\* the value of the supplied mask for step t of row b: its trailing window
MaskAt(b, t) ==
    Val(call.inp.attention_mask).v[b][Val(call.inp.attention_mask).shape[2] - CallT + t]

\* the last call without its mask
Unmasked ==
    forward(self, call.training, call.before, [call.inp EXCEPT !.attention_mask = None])

\* the last call without its last step (of the input and of the mask)
WithoutLastStep ==
    forward(self, call.training, call.before,
            [call.inp EXCEPT !.hidden_states = DropLastStep(@),
                             !.attention_mask = Some(DropLastStep(Val(@)))])

Sequential ==
    fused_recurrent_hgrn(Val(call.res.i), Val(call.res.f), call.res.h0, TRUE, None)
Chunked == chunk_hgrn(Val(call.res.i), Val(call.res.f), call.res.h0, TRUE)

\* C9: on the same effective input, log-decay and initial state the sequential
\* and the chunked strategy give the same outputs and the same final state, the
\* outputs satisfy h[t] = exp(f[t]) * h[t-1] + i[t] from the initial state, the
\* final state is h[T-1], and the call returned these.
C9_StrategiesAgree ==
    (Completed /\ IsNone(call.inp.cu_seqlens))
        => \A sq \in {Sequential} : \A ch \in {Chunked} :
              /\ sq.o = ch.o
              /\ sq.final = ch.final
              /\ call.res.o = Some(ch.o)
              /\ call.inp.use_cache => call.res.recurrent_state = sq.final
              /\ \A b \in 1..CallB : \A c \in 1..Channels :
                    /\ \A t \in 1..CallT :
                          REq(ch.o.v[b][t][c],
                              RAdd(RMul(Exp(Val(call.res.f).v[b][t][c]),
                                        PrevState(b, t, c)),
                                   Val(call.res.i).v[b][t][c]))
                    /\ Val(ch.final).v[b][c]
                          = (IF CallT = 0 THEN InitialOf(call.res.h0, b, c)
                             ELSE ch.o.v[b][CallT][c])

C9_Witness ==
    /\ Completed /\ call.res.mode = "chunk"
    /\ CallT > ChunkSize /\ CallT % ChunkSize # 0
    /\ ~IsNone(call.res.h0)
    /\ ~REq(InitialOf(call.res.h0, 1, 1), Zero)
    /\ ~REq(Val(call.res.i).v[1][CallT][1], Zero)

\* C10: a call with T = 0 completes, returns an empty output and leaves the
\* state stored for the layer as it was, also with a padding mask and a cache
\* entry.
C10_EmptySequence ==
    (Called /\ CallT = 0
        /\ call.res.outcome \notin {"AssertionError", "NotImplementedError"})
        => /\ call.res.outcome = "ok"
           /\ Val(call.res.o).shape[2] = 0
           /\ (call.inp.past_key_values /\ call.inp.use_cache
                  /\ ~IsNone(StoredState(self, call.before)))
                 => StoredState(self, call.res.cache) = StoredState(self, call.before)

=============================================================================
